---------------------------- MODULE Spec2Model ----------------------------
(***************************************************************************)
(* Merchant Center monitor: the check-and-alert engine                     *)
(* (app/alert_service.py), its development twin                            *)
(* (app/alert_service_dev.py), the snapshot store (app/database_mock.py,   *)
(* app/database.py), the retrying Merchant API client                      *)
(* (app/merchant_api.py) and the asyncio handlers that invoke the engine   *)
(* (app/main.py, app/scheduler.py).                                        *)
(*                                                                         *)
(* Specifications:                                                         *)
(*   Spec       the engine driven by the HTTP handler and the scheduler    *)
(*              loop on one asyncio event loop                             *)
(*   SpecAlert  AlertService._should_send_alert on enumerated inputs       *)
(*   SpecDev    AlertServiceDev.run_check against the mock store           *)
(*   SpecReq    MerchantAPIService._make_request against every sequence of *)
(*              upstream outcomes                                          *)
(*   SpecBackoff the engine with that retry loop run inside its fetch step *)
(*   SpecSched  SchedulerService: start, stop, the loop task, the signal   *)
(*              handler                                                    *)
(*   SpecMock   SpecDev with AlertServiceDev.get_alert_history             *)
(*   SpecStore  the engine behind the HTTP handlers with a failing store   *)
(*   SpecTrend, SpecParse, SpecTop   _calculate_trend,                     *)
(*              parse_product_status_counts and get_top_issue_codes on     *)
(*              enumerated inputs                                          *)
(***************************************************************************)
EXTENDS Integers, Sequences, FiniteSets, TLC

VARIABLES
    settings,    \* app.config.settings: the two alert thresholds
    snapshots,   \* db_service: the persisted snapshots, oldest first
    now,         \* the wall clock read by datetime.utcnow()
    loop,        \* the asyncio event loop: the task it is executing, or "idle"
    pc,          \* per task: its position in the handler / run_check
    frame,       \* per task: the locals of its run_check invocation
    base,        \* per persisted snapshot: the store length its run saw when it read latest
    call,        \* the arguments of a pure-function call under test
    ret,         \* what that call returned (NoReturn before it ran)
    req,         \* one _make_request call: attempt counter, requests, sleeps, outcome
    sched        \* SchedulerService: running, its loop task, and the process exit

vars == <<settings, snapshots, now, loop, pc, frame, base, call, ret, req, sched>>

(***************************************************************************)
(* Bounds of the model                                                     *)
(***************************************************************************)
MaxCount == 3          \* item counts range over 0..MaxCount (times 10 in the engine)
MaxThreshold == 4      \* thresholds enumerated for the decision rule: 0..MaxThreshold
MaxSnapshots == 3      \* runs are started while the store holds fewer snapshots
MaxRetriesArg == 3     \* max_retries arguments enumerated: 0..MaxRetriesArg
MaxLimit == 2          \* history limits requested: 0..MaxLimit, and the cap and cap + 1
MaxWindow == 3         \* 24-hour windows given to the trend: 0..MaxWindow snapshots
MaxItems == 2          \* reports given to the status parser: 0..MaxItems items

(***************************************************************************)
(* Data model (app/models.py)                                              *)
(***************************************************************************)
ProductStatusCounts(a, p, d, l, s, u, r) ==
    [approved |-> a, pending |-> p, disapproved |-> d, limited |-> l,
     suspended |-> s, under_review |-> u, processing |-> r]

ZeroCounts == ProductStatusCounts(0, 0, 0, 0, 0, 0, 0)

ProductStatusSnapshot(ts, totals, delta, alert, issues) ==
    [timestamp |-> ts, country |-> "PL", reporting_context |-> "SHOPPING_ADS",
     totals |-> totals, delta_disapproved |-> delta, alert_sent |-> alert,
     top_issues |-> issues]

None == [none |-> TRUE]

(***************************************************************************)
(* AlertService._should_send_alert                                         *)
(***************************************************************************)
_should_send_alert_inclusive_abs(totals, delta_disapproved) ==
    LET problematic_total == totals.disapproved + totals.suspended + totals.limited
    IN  IF problematic_total >= settings.alert_threshold_abs THEN TRUE
        ELSE IF delta_disapproved >= settings.alert_threshold_delta THEN TRUE
        ELSE FALSE

_should_send_alert(totals, delta_disapproved) ==
    LET problematic_total == totals.disapproved + totals.suspended + totals.limited
    IN  IF problematic_total > settings.alert_threshold_abs THEN TRUE
        ELSE IF delta_disapproved >= settings.alert_threshold_delta THEN TRUE
        ELSE FALSE

(***************************************************************************)
(* Sequence helpers (Python list operations used by the code)              *)
(***************************************************************************)
RECURSIVE Reverse(_)
Reverse(s) == IF s = <<>> THEN <<>> ELSE Append(Reverse(Tail(s)), Head(s))

\* s[:n] for n >= 0
Take(s, n) == SubSeq(s, 1, IF n < Len(s) THEN n ELSE Len(s))

\* s[-1]
Last(s) == s[Len(s)]

(***************************************************************************)
(* MerchantAPIService: parsing of the aggregate status report              *)
(***************************************************************************)
\* str.upper() on the status strings that occur in reports
Upper(s) ==
    CASE s = "approved" -> "APPROVED"
      [] s = "Approved" -> "APPROVED"
      [] s = "pending" -> "PENDING"
      [] s = "disapproved" -> "DISAPPROVED"
      [] s = "Disapproved" -> "DISAPPROVED"
      [] s = "limited" -> "LIMITED"
      [] s = "suspended" -> "SUSPENDED"
      [] s = "under_review" -> "UNDER_REVIEW"
      [] s = "processing" -> "PROCESSING"
      [] s = "unknown" -> "UNKNOWN"
      [] OTHER -> s

\* mutant: each item overwrites the count of its status
RECURSIVE AccumulateCounts_overwrite(_, _)
AccumulateCounts_overwrite(items, counts) ==
    IF items = <<>> THEN counts
    ELSE LET item == Head(items)
             status == Upper(item.status)
             count == item.count
             next ==
                 CASE status = "APPROVED" -> [counts EXCEPT !.approved = count]
                   [] status = "PENDING" -> [counts EXCEPT !.pending = count]
                   [] status = "DISAPPROVED" -> [counts EXCEPT !.disapproved = count]
                   [] status = "LIMITED" -> [counts EXCEPT !.limited = count]
                   [] status = "SUSPENDED" -> [counts EXCEPT !.suspended = count]
                   [] status = "UNDER_REVIEW" -> [counts EXCEPT !.under_review = count]
                   [] status = "PROCESSING" -> [counts EXCEPT !.processing = count]
                   [] OTHER -> counts
         IN  AccumulateCounts_overwrite(Tail(items), next)

RECURSIVE AccumulateCounts(_, _)
AccumulateCounts(items, counts) ==
    IF items = <<>> THEN counts
    ELSE LET item == Head(items)
             status == Upper(item.status)
             count == item.count
             next ==
                 CASE status = "APPROVED" -> [counts EXCEPT !.approved = @ + count]
                   [] status = "PENDING" -> [counts EXCEPT !.pending = @ + count]
                   [] status = "DISAPPROVED" -> [counts EXCEPT !.disapproved = @ + count]
                   [] status = "LIMITED" -> [counts EXCEPT !.limited = @ + count]
                   [] status = "SUSPENDED" -> [counts EXCEPT !.suspended = @ + count]
                   [] status = "UNDER_REVIEW" -> [counts EXCEPT !.under_review = @ + count]
                   [] status = "PROCESSING" -> [counts EXCEPT !.processing = @ + count]
                   [] OTHER -> counts
         IN  AccumulateCounts(Tail(items), next)

parse_product_status_counts(api_response) ==
    AccumulateCounts(api_response.items, ZeroCounts)

\* the issue details of one item that become IssueCode entries, in input order
RECURSIVE DetailIssues(_)
DetailIssues(details) ==
    IF details = <<>> THEN <<>>
    ELSE LET detail == Head(details)
         IN  (IF detail.code # "" /\ detail.count > 0
              THEN <<[code |-> detail.code, description |-> detail.description,
                      count |-> detail.count]>>
              ELSE <<>>) \o DetailIssues(Tail(details))

RECURSIVE CollectIssues(_)
CollectIssues(items) ==
    IF items = <<>> THEN <<>>
    ELSE LET item == Head(items)
         IN  (IF Upper(item.status) \in {"DISAPPROVED", "LIMITED", "SUSPENDED"}
              THEN DetailIssues(item.issueDetails)
              ELSE <<>>) \o CollectIssues(Tail(items))

\* list.sort(key=count, reverse=True): stable, descending by count
\* mutant: an entry is placed before the entries of equal count
RECURSIVE InsertByCountDesc_before_equal(_, _)
InsertByCountDesc_before_equal(sorted, x) ==
    IF sorted = <<>> THEN <<x>>
    ELSE IF Head(sorted).count > x.count
         THEN <<Head(sorted)>> \o InsertByCountDesc_before_equal(Tail(sorted), x)
         ELSE <<x>> \o sorted

RECURSIVE InsertByCountDesc(_, _)
InsertByCountDesc(sorted, x) ==
    IF sorted = <<>> THEN <<x>>
    ELSE IF Head(sorted).count >= x.count
         THEN <<Head(sorted)>> \o InsertByCountDesc(Tail(sorted), x)
         ELSE <<x>> \o sorted

RECURSIVE SortByCountDesc(_, _)
SortByCountDesc(issues, sorted) ==
    IF issues = <<>> THEN sorted
    ELSE SortByCountDesc(Tail(issues), InsertByCountDesc(sorted, Head(issues)))

get_top_issue_codes(api_response, limit) ==
    Take(SortByCountDesc(CollectIssues(api_response.items), <<>>), limit)

(***************************************************************************)
(* Snapshot store (db_service)                                             *)
(***************************************************************************)
\* 24 hours, in clock ticks of 12 hours
WindowTicks == 2

\* mutant: the oldest snapshot is returned (ascending order, limit 1)
get_latest_snapshot_oldest == IF snapshots = <<>> THEN None ELSE Head(snapshots)

get_latest_snapshot == IF snapshots = <<>> THEN None ELSE Last(snapshots)

\* snapshots whose timestamp is >= utcnow() - 24h, oldest first
get_snapshots_last_24h ==
    LET cutoff_time == now - WindowTicks
    IN  SelectSeq(snapshots, LAMBDA s: s.timestamp >= cutoff_time)

\* FirestoreService: where alert_sent == True, newest first, at most limit
db_get_alert_history(limit) ==
    Take(Reverse(SelectSeq(snapshots, LAMBDA s: s.alert_sent)), limit)

(***************************************************************************)
(* AlertService: summary, trend, history                                   *)
(***************************************************************************)
\* mutant: the change is taken against the snapshot before the last one
_calculate_trend_previous(snapshots_24h) ==
    IF Len(snapshots_24h) < 2
    THEN [trend |-> "insufficient_data", change |-> 0]
    ELSE LET first_snapshot == snapshots_24h[Len(snapshots_24h) - 1]
             last_snapshot == Last(snapshots_24h)
             change == last_snapshot.totals.disapproved
                       - first_snapshot.totals.disapproved
         IN  [trend |-> IF change > 0 THEN "increasing"
                        ELSE IF change < 0 THEN "decreasing" ELSE "stable",
              change |-> change, period |-> "24h"]

_calculate_trend(snapshots_24h) ==
    IF Len(snapshots_24h) < 2
    THEN [trend |-> "insufficient_data", change |-> 0]
    ELSE LET first_snapshot == snapshots_24h[1]
             last_snapshot == Last(snapshots_24h)
             change == last_snapshot.totals.disapproved
                       - first_snapshot.totals.disapproved
         IN  [trend |-> IF change > 0 THEN "increasing"
                        ELSE IF change < 0 THEN "decreasing" ELSE "stable",
              change |-> change, period |-> "24h"]

\* mutant: the summary is built from the oldest snapshot
get_status_summary_oldest ==
    LET latest_snapshot == IF snapshots = <<>> THEN None ELSE snapshots[1]
    IN  IF latest_snapshot = None
        THEN [status |-> "no_data", message |-> "No previous checks found",
              last_check |-> None]
        ELSE LET snapshots_24h == get_snapshots_last_24h
             IN  [status |-> IF ~latest_snapshot.alert_sent THEN "healthy" ELSE "alert",
                  last_check |-> latest_snapshot.timestamp,
                  country |-> latest_snapshot.country,
                  reporting_context |-> latest_snapshot.reporting_context,
                  totals |-> latest_snapshot.totals,
                  delta |-> [disapproved |-> latest_snapshot.delta_disapproved],
                  alert_sent |-> latest_snapshot.alert_sent,
                  trend_24h |-> _calculate_trend(snapshots_24h),
                  checks_24h |-> Len(snapshots_24h)]

get_status_summary ==
    LET latest_snapshot == get_latest_snapshot
    IN  IF latest_snapshot = None
        THEN [status |-> "no_data", message |-> "No previous checks found",
              last_check |-> None]
        ELSE LET snapshots_24h == get_snapshots_last_24h
             IN  [status |-> IF ~latest_snapshot.alert_sent THEN "healthy" ELSE "alert",
                  last_check |-> latest_snapshot.timestamp,
                  country |-> latest_snapshot.country,
                  reporting_context |-> latest_snapshot.reporting_context,
                  totals |-> latest_snapshot.totals,
                  delta |-> [disapproved |-> latest_snapshot.delta_disapproved],
                  alert_sent |-> latest_snapshot.alert_sent,
                  trend_24h |-> _calculate_trend(snapshots_24h),
                  checks_24h |-> Len(snapshots_24h)]

HistoryEntry(snapshot) ==
    [timestamp |-> snapshot.timestamp, country |-> snapshot.country,
     reporting_context |-> snapshot.reporting_context, totals |-> snapshot.totals,
     delta_disapproved |-> snapshot.delta_disapproved,
     top_issues |-> snapshot.top_issues]

get_alert_history(limit) ==
    LET alert_snapshots == db_get_alert_history(limit)
    IN  [i \in 1..Len(alert_snapshots) |-> HistoryEntry(alert_snapshots[i])]

\* GET /alerts/history: the cap applied by the handler
HistoryCap == 50

\* mutant: the requested limit is passed on as it is
CappedLimit_uncapped(limit) == limit

CappedLimit(limit) == IF limit > HistoryCap THEN HistoryCap ELSE limit

(***************************************************************************)
(* The engine on the asyncio event loop                                    *)
(*                                                                         *)
(* Two coroutines invoke the engine: the HTTP handlers of app/main.py      *)
(* (task "http") and SchedulerService._scheduler_loop (task "sched").      *)
(* A coroutine keeps the event loop until it awaits or completes.          *)
(* Positions: idle -> ready -> fetch -> read -> send -> save -> return,    *)
(* with raise for a failed fetch, status and history for the read-only     *)
(* endpoints.                                                              *)
(***************************************************************************)
Tasks == {"http", "sched"}

Kinds(t) == IF t = "http" THEN {"run", "status", "history"} ELSE {"run"}

LimitValues == (0..MaxLimit) \cup {HistoryCap, HistoryCap + 1}

NoFrame ==
    [kind |-> "none", limit |-> 0, entry |-> <<>>, current_totals |-> None,
     top_issues |-> <<>>, previous_snapshot |-> None, seen |-> 0,
     delta_disapproved |-> 0, alert_sent |-> FALSE, email_success |-> FALSE,
     sent |-> 0, accepted |-> FALSE, audit_error |-> FALSE, store_error |-> FALSE,
     passed |-> None, result |-> None]

DefaultSettings == [alert_threshold_abs |-> 25, alert_threshold_delta |-> 10]

\* limit=5 passed to get_top_issue_codes by run_check
TopIssuesLimit == 5

\* the reports the Status Source returns to the engine
EngineItem(st, n) ==
    [status |-> st, count |-> n,
     issueDetails |-> <<[code |-> "MISSING_GTIN", description |-> "Missing GTIN",
                         count |-> n]>>]

EngineResponses ==
    {[items |-> <<>>]}
    \cup {[items |-> <<EngineItem("DISAPPROVED", 10 * c)>>] : c \in 1..MaxCount}
    \cup {[items |-> <<EngineItem("SUSPENDED", 10 * MaxCount)>>]}

\* mutant: the subtraction the wrong way round
DeltaDisapproved_reversed(current_totals, previous_snapshot) ==
    IF previous_snapshot # None
    THEN previous_snapshot.totals.disapproved - current_totals.disapproved
    ELSE 0

\* delta_disapproved = 0; if previous_snapshot: delta_disapproved = current - previous
DeltaDisapproved(current_totals, previous_snapshot) ==
    IF previous_snapshot # None
    THEN current_totals.disapproved - previous_snapshot.totals.disapproved
    ELSE 0

\* mutant: save_snapshot awaited, so the coroutine is suspended before the write
Yields_before_save(p) == p \in {"idle", "save"}

\* The positions at which a coroutine gives the event loop back: only where the
\* handler has completed or the scheduler loop awaits asyncio.sleep.  run_check is
\* a plain synchronous call; nothing inside it awaits.
Yields(p) == p = "idle"

\* task t is the one the event loop executes, or can be resumed by an idle loop
Runs(t) == loop = t \/ loop = "idle"

Advance(t, p, f) ==
    /\ pc' = [pc EXCEPT ![t] = p]
    /\ frame' = [frame EXCEPT ![t] = f]
    /\ loop' = IF Yields(p) THEN "idle" ELSE t

\* a request arrives at the server / the scheduler's asyncio.sleep timer expires
Trigger(t) ==
    /\ pc[t] = "idle"
    /\ pc' = [pc EXCEPT ![t] = "ready"]
    /\ UNCHANGED <<settings, snapshots, now, loop, frame, base, call, ret, req, sched>>

\* the event loop starts the handler of the pending request / resumes the
\* scheduler loop, which calls run_check
Resume(t) ==
    /\ pc[t] = "ready"
    /\ loop = "idle"
    /\ \E k \in Kinds(t), n \in LimitValues :
          /\ k # "history" => n = 0
          /\ k = "run" => Len(snapshots) < MaxSnapshots
          /\ pc' = [pc EXCEPT ![t] = CASE k = "run" -> "fetch"
                                       [] k = "status" -> "status"
                                       [] OTHER -> "history"]
          /\ frame' = [frame EXCEPT ![t] = [NoFrame EXCEPT !.kind = k, !.limit = n,
                                                           !.entry = snapshots]]
    /\ loop' = t
    /\ UNCHANGED <<settings, snapshots, now, base, call, ret, req, sched>>

\* mutant: a failed fetch persists an all-zero snapshot before raising
Fetch_persists_on_error(t) ==
    /\ pc[t] = "fetch"
    /\ Runs(t)
    /\ \/ /\ Advance(t, "raise", frame[t])
          /\ snapshots' = Append(snapshots,
                              ProductStatusSnapshot(now, ZeroCounts, 0, FALSE, <<>>))
          /\ base' = Append(base, [task |-> t, seen |-> Len(snapshots)])
          /\ now' = now + 1
       \/ /\ \E api_response \in EngineResponses :
                Advance(t, "read",
                    [frame[t] EXCEPT
                        !.current_totals = parse_product_status_counts(api_response),
                        !.top_issues = get_top_issue_codes(api_response, TopIssuesLimit)])
          /\ UNCHANGED <<snapshots, now, base>>
    /\ UNCHANGED <<settings, call, ret, req, sched>>

\* run_check: merchant_api.get_aggregate_product_statuses and the two parsers
Fetch(t) ==
    /\ pc[t] = "fetch"
    /\ Runs(t)
    /\ \/ Advance(t, "raise", frame[t])
       \/ \E api_response \in EngineResponses :
             Advance(t, "read",
                 [frame[t] EXCEPT
                     !.current_totals = parse_product_status_counts(api_response),
                     !.top_issues = get_top_issue_codes(api_response, TopIssuesLimit)])
    /\ UNCHANGED <<settings, snapshots, now, base, call, ret, req, sched>>

\* mutant: the branch on the decision inverted
ReadLatest_inverted_branch(t) ==
    /\ pc[t] = "read"
    /\ Runs(t)
    /\ LET previous_snapshot == get_latest_snapshot
           delta_disapproved == DeltaDisapproved(frame[t].current_totals, previous_snapshot)
           alert_sent == _should_send_alert(frame[t].current_totals, delta_disapproved)
       IN  Advance(t, IF ~alert_sent THEN "send" ELSE "save",
               [frame[t] EXCEPT !.previous_snapshot = previous_snapshot,
                                !.seen = Len(snapshots),
                                !.delta_disapproved = delta_disapproved,
                                !.alert_sent = alert_sent])
    /\ UNCHANGED <<settings, snapshots, now, base, call, ret, req, sched>>

\* mutant: no alert while the previous snapshot already recorded one
ReadLatest_suppresses_repeat(t) ==
    /\ pc[t] = "read"
    /\ Runs(t)
    /\ LET previous_snapshot == get_latest_snapshot
           delta_disapproved == DeltaDisapproved(frame[t].current_totals, previous_snapshot)
           repeated == IF previous_snapshot = None THEN FALSE
                       ELSE previous_snapshot.alert_sent
           alert_sent == /\ _should_send_alert(frame[t].current_totals, delta_disapproved)
                         /\ ~repeated
       IN  Advance(t, IF alert_sent THEN "send" ELSE "save",
               [frame[t] EXCEPT !.previous_snapshot = previous_snapshot,
                                !.seen = Len(snapshots),
                                !.delta_disapproved = delta_disapproved,
                                !.alert_sent = alert_sent])
    /\ UNCHANGED <<settings, snapshots, now, base, call, ret, req, sched>>

\* run_check: get_latest_snapshot, the delta and the decision
ReadLatest(t) ==
    /\ pc[t] = "read"
    /\ Runs(t)
    /\ LET previous_snapshot == get_latest_snapshot
           delta_disapproved == DeltaDisapproved(frame[t].current_totals, previous_snapshot)
           alert_sent == _should_send_alert(frame[t].current_totals, delta_disapproved)
       IN  Advance(t, IF alert_sent THEN "send" ELSE "save",
               [frame[t] EXCEPT !.previous_snapshot = previous_snapshot,
                                !.seen = Len(snapshots),
                                !.delta_disapproved = delta_disapproved,
                                !.alert_sent = alert_sent])
    /\ UNCHANGED <<settings, snapshots, now, base, call, ret, req, sched>>

\* mutant: the flag is not downgraded when the send fails
SendAlert_keeps_flag(t) ==
    /\ pc[t] = "send"
    /\ Runs(t)
    /\ \E email_success \in BOOLEAN :
          Advance(t, "save",
              [frame[t] EXCEPT !.email_success = email_success, !.sent = @ + 1])
    /\ UNCHANGED <<settings, snapshots, now, base, call, ret, req, sched>>

\* run_check: email_service.send_alert_email, which reports success or failure
SendAlert(t) ==
    /\ pc[t] = "send"
    /\ Runs(t)
    /\ \E email_success \in BOOLEAN :
          Advance(t, "save",
              [frame[t] EXCEPT !.email_success = email_success,
                               !.sent = @ + 1,
                               !.alert_sent = IF ~email_success THEN FALSE ELSE @])
    /\ UNCHANGED <<settings, snapshots, now, base, call, ret, req, sched>>

\* mutant: the store keeps one "latest" document, overwritten by each run
SaveSnapshot_overwrites_latest(t) ==
    /\ pc[t] = "save"
    /\ Runs(t)
    /\ LET f == frame[t]
           snapshot == ProductStatusSnapshot(now, f.current_totals, f.delta_disapproved,
                                             f.alert_sent, f.top_issues)
           result == [checked_at |-> snapshot.timestamp, country |-> snapshot.country,
                      reporting_context |-> snapshot.reporting_context,
                      totals |-> f.current_totals,
                      delta |-> [disapproved |-> f.delta_disapproved],
                      alert_sent |-> f.alert_sent, top_issues |-> f.top_issues]
       IN  /\ snapshots' = IF snapshots = <<>> THEN <<snapshot>>
                           ELSE [snapshots EXCEPT ![Len(snapshots)] = snapshot]
           /\ base' = IF base = <<>> THEN <<[task |-> t, seen |-> f.seen]>>
                      ELSE [base EXCEPT ![Len(base)] = [task |-> t, seen |-> f.seen]]
           /\ now' = now + 1
           /\ Advance(t, "return", [f EXCEPT !.result = result])
    /\ UNCHANGED <<settings, call, ret, req, sched>>

\* run_check: build the snapshot, db_service.save_snapshot, build the result
SaveSnapshot(t) ==
    /\ pc[t] = "save"
    /\ Runs(t)
    /\ LET f == frame[t]
           snapshot == ProductStatusSnapshot(now, f.current_totals, f.delta_disapproved,
                                             f.alert_sent, f.top_issues)
           result == [checked_at |-> snapshot.timestamp, country |-> snapshot.country,
                      reporting_context |-> snapshot.reporting_context,
                      totals |-> f.current_totals,
                      delta |-> [disapproved |-> f.delta_disapproved],
                      alert_sent |-> f.alert_sent, top_issues |-> f.top_issues]
       IN  /\ snapshots' = Append(snapshots, snapshot)
           /\ base' = Append(base, [task |-> t, seen |-> f.seen])
           /\ now' = now + 1
           /\ Advance(t, "return", [f EXCEPT !.result = result])
    /\ UNCHANGED <<settings, call, ret, req, sched>>

\* GET /status
StatusRequest(t) ==
    /\ pc[t] = "status"
    /\ Runs(t)
    /\ Advance(t, "return", [frame[t] EXCEPT !.result = get_status_summary])
    /\ UNCHANGED <<settings, snapshots, now, base, call, ret, req, sched>>

\* GET /alerts/history?limit=N
HistoryRequest(t) ==
    /\ pc[t] = "history"
    /\ Runs(t)
    /\ LET limit == CappedLimit(frame[t].limit)
       IN  Advance(t, "return",
               [frame[t] EXCEPT !.passed = limit, !.result = get_alert_history(limit)])
    /\ UNCHANGED <<settings, snapshots, now, base, call, ret, req, sched>>

\* the handler returns its result; the scheduler logs it and awaits asyncio.sleep
Return(t) ==
    /\ pc[t] = "return"
    /\ Runs(t)
    /\ Advance(t, "idle", NoFrame)
    /\ UNCHANGED <<settings, snapshots, now, base, call, ret, req, sched>>

\* run_check re-raises: HTTP 500 from the handler, a log line from the scheduler
Raise(t) ==
    /\ pc[t] = "raise"
    /\ Runs(t)
    /\ Advance(t, "idle", NoFrame)
    /\ UNCHANGED <<settings, snapshots, now, base, call, ret, req, sched>>

NoCall == [fn |-> "none"]

NoReturn == [returned |-> FALSE]

NoRequest == [pc |-> "none"]

\* SchedulerService.__init__: running = False, task = None; no cycle has failed,
\* the process has not exited, no loop task has been created and start and stop
\* have logged nothing
NoScheduler ==
    [running |-> FALSE, task |-> "none", failed |-> FALSE, exited |-> FALSE,
     live |-> 0, log |-> "none"]

\* after start(): running = True, task = the created _scheduler_loop task
StartedScheduler ==
    [NoScheduler EXCEPT !.running = TRUE, !.task = "live", !.live = 1, !.log = "started"]

EngineInit ==
    /\ snapshots = <<>>
    /\ now = 0
    /\ loop = "idle"
    /\ pc = [t \in Tasks |-> "idle"]
    /\ frame = [t \in Tasks |-> NoFrame]
    /\ base = <<>>

Init ==
    /\ settings = DefaultSettings
    /\ EngineInit
    /\ call = NoCall
    /\ ret = NoReturn
    /\ req = NoRequest
    /\ sched = StartedScheduler

Next ==
    \E t \in Tasks :
        \/ Trigger(t)
        \/ Resume(t)
        \/ Fetch(t)
        \/ ReadLatest(t)
        \/ SendAlert(t)
        \/ SaveSnapshot(t)
        \/ StatusRequest(t)
        \/ HistoryRequest(t)
        \/ Return(t)
        \/ Raise(t)

Spec == Init /\ [][Next]_vars

(***************************************************************************)
(* SpecAlert: _should_send_alert on enumerated totals, deltas, thresholds  *)
(***************************************************************************)
AlertTotals ==
    {ProductStatusCounts(0, 0, d, l, s, 0, 0) :
        d \in 0..MaxCount, l \in 0..MaxCount, s \in 0..MaxCount}

DeltaValues == (0 - MaxCount)..MaxCount

ThresholdValues == 0..MaxThreshold

InitAlert ==
    /\ settings \in [alert_threshold_abs : ThresholdValues,
                     alert_threshold_delta : ThresholdValues]
    /\ EngineInit
    /\ call \in [fn : {"_should_send_alert"}, totals : AlertTotals,
                 delta_disapproved : DeltaValues]
    /\ ret = NoReturn
    /\ req = NoRequest
    /\ sched = NoScheduler

ShouldSendAlertCall ==
    /\ call.fn = "_should_send_alert"
    /\ ~ret.returned
    /\ ret' = [returned |-> TRUE,
               value |-> _should_send_alert(call.totals, call.delta_disapproved)]
    /\ UNCHANGED <<settings, snapshots, now, loop, pc, frame, base, call, req, sched>>

NextAlert == ShouldSendAlertCall

SpecAlert == InitAlert /\ [][NextAlert]_vars

(***************************************************************************)
(* SpecDev: AlertServiceDev.run_check against MockDatabaseService          *)
(***************************************************************************)
\* the totals AlertServiceDev.run_check hard-codes
DevTotals == ProductStatusCounts(1000, 50, 25, 5, 2, 10, 3)

DevTopIssues ==
    <<[code |-> "MISSING_GTIN", description |-> "Product is missing a GTIN", count |-> 10],
      [code |-> "IMAGE_LINK_BROKEN", description |-> "Product image link is broken",
       count |-> 8],
      [code |-> "INVALID_PRICE", description |-> "Product price is invalid", count |-> 5]>>

\* delta_disapproved = 5; if previous_snapshot: delta_disapproved = current - previous
DevDeltaDisapproved(current_totals, previous_snapshot) ==
    IF previous_snapshot # None
    THEN current_totals.disapproved - previous_snapshot.totals.disapproved
    ELSE 5

\* run_check is called: the mock totals and issues are built
DevStart(t) ==
    /\ pc[t] = "ready"
    /\ loop = "idle"
    /\ Len(snapshots) < MaxSnapshots
    /\ pc' = [pc EXCEPT ![t] = "read"]
    /\ frame' = [frame EXCEPT ![t] = [NoFrame EXCEPT !.kind = "run",
                                                     !.entry = snapshots,
                                                     !.current_totals = DevTotals,
                                                     !.top_issues = DevTopIssues]]
    /\ loop' = t
    /\ UNCHANGED <<settings, snapshots, now, base, call, ret, req, sched>>

\* get_latest_snapshot, the delta and the decision; no e-mail is sent
DevReadLatest(t) ==
    /\ pc[t] = "read"
    /\ Runs(t)
    /\ LET previous_snapshot == get_latest_snapshot
           delta_disapproved ==
               DevDeltaDisapproved(frame[t].current_totals, previous_snapshot)
           alert_sent == _should_send_alert(frame[t].current_totals, delta_disapproved)
       IN  Advance(t, "save",
               [frame[t] EXCEPT !.previous_snapshot = previous_snapshot,
                                !.seen = Len(snapshots),
                                !.delta_disapproved = delta_disapproved,
                                !.alert_sent = alert_sent])
    /\ UNCHANGED <<settings, snapshots, now, base, call, ret, req, sched>>

DevThresholds == {5 * k : k \in 0..(2 * MaxCount + 1)}

InitDev ==
    /\ settings \in [alert_threshold_abs : DevThresholds,
                     alert_threshold_delta : DevThresholds]
    /\ EngineInit
    /\ call = NoCall
    /\ ret = NoReturn
    /\ req = NoRequest
    /\ sched = NoScheduler

NextDev ==
    \/ Trigger("http")
    \/ DevStart("http")
    \/ DevReadLatest("http")
    \/ SaveSnapshot("http")
    \/ Return("http")

SpecDev == InitDev /\ [][NextDev]_vars

(***************************************************************************)
(* SpecReq: MerchantAPIService._make_request                               *)
(*                                                                         *)
(* One loop iteration per upstream outcome:                                *)
(*   auth_error      get_access_token raises GoogleAuthError               *)
(*   refresh_error   the same, and refresh_token raises as well            *)
(*   200, 429, 5xx   the response status                                   *)
(*   401             the API rejects the token: a client error like 4xx    *)
(*   4xx             any other client error: raise_for_status raises       *)
(*   2xx             a success status other than 200: raise_for_status     *)
(*                   returns                                               *)
(*   timeout         client.request raises httpx.TimeoutException          *)
(*   error           client.request raises any other exception             *)
(***************************************************************************)
Outcomes ==
    {"auth_error", "refresh_error", "200", "429", "5xx", "401", "4xx", "2xx", "timeout",
     "error"}

\* mutant: the wait grows linearly, 2 * attempt
Pow2_linear(n) == 2 * n

RECURSIVE Pow2(_)
Pow2(n) == IF n = 0 THEN 1 ELSE 2 * Pow2(n - 1)

\* (2 ** attempt) * 60, * 10, * 5
RateLimitWait(attempt) == Pow2(attempt) * 60

ServerErrorWait(attempt) == Pow2(attempt) * 10

ExceptionWait(attempt) == Pow2(attempt) * 5

\* mutant: one iteration too many
InRange_inclusive(attempt, max_retries) == attempt <= max_retries

\* for attempt in range(max_retries)
InRange(attempt, max_retries) == attempt < max_retries

\* mutant: the request is sent once more before the sleep
SleepThenRetry_resends(r, wait) ==
    [r EXCEPT !.pc = "sleep", !.pending = wait, !.requests = @ + 1]

\* time.sleep(wait) then continue
SleepThenRetry(r, wait) == [r EXCEPT !.pc = "sleep", !.pending = wait]

\* continue
RetryNow(r) == [r EXCEPT !.attempt = @ + 1]

\* raise
RaiseError(r, kind) == [r EXCEPT !.pc = "raised", !.error = [kind |-> kind]]

\* mutant: a timeout sleeps on the last attempt as well
HandleTimeout_always_sleeps(r) == SleepThenRetry(r, ExceptionWait(r.attempt))

\* if attempt < max_retries - 1: (sleep;) continue, else raise: the three handlers
HandleTimeout(r) ==
    IF r.attempt < r.max_retries - 1
    THEN SleepThenRetry(r, ExceptionWait(r.attempt))
    ELSE RaiseError(r, "timeout")

\* mutant: the credential is refreshed a second time before the retry
HandleAuthError_refreshes_again(r) ==
    IF r.attempt < r.max_retries - 1
    THEN RetryNow([r EXCEPT !.refreshes = @ + 1])
    ELSE RaiseError(r, "auth")

HandleAuthError(r) ==
    IF r.attempt < r.max_retries - 1 THEN RetryNow(r) ELSE RaiseError(r, "auth")

HandleException(r, kind) ==
    IF r.attempt < r.max_retries - 1
    THEN SleepThenRetry(r, ExceptionWait(r.attempt))
    ELSE RaiseError(r, kind)

\* one iteration of the loop, up to its return, raise, continue or sleep
Attempt ==
    /\ req.pc = "attempt"
    /\ InRange(req.attempt, req.max_retries)
    /\ \E o \in Outcomes :
          LET r == [req EXCEPT !.outcomes = Append(@, o)]
              sent == [r EXCEPT !.requests = @ + 1]
          IN  req' =
                  CASE o = "auth_error" ->
                         HandleAuthError([r EXCEPT !.refreshes = @ + 1])
                    [] o = "refresh_error" ->
                         RaiseError([r EXCEPT !.refreshes = @ + 1], "auth")
                    [] o = "200" ->
                         [sent EXCEPT !.pc = "returned", !.value = [json |-> "body"]]
                    [] o = "429" -> SleepThenRetry(sent, RateLimitWait(r.attempt))
                    [] o = "5xx" -> SleepThenRetry(sent, ServerErrorWait(r.attempt))
                    [] o = "401" -> HandleException(sent, "http_status")
                    [] o = "4xx" -> HandleException(sent, "http_status")
                    [] o = "2xx" -> RetryNow(sent)
                    [] o = "timeout" -> HandleTimeout(sent)
                    [] OTHER -> HandleException(sent, "exception")
    /\ UNCHANGED <<settings, snapshots, now, loop, pc, frame, base, call, ret, sched>>

\* time.sleep returns and the loop continues with the next attempt
Wake ==
    /\ req.pc = "sleep"
    /\ req' = [req EXCEPT !.pc = "attempt", !.attempt = @ + 1,
                          !.sleeps = Append(@, req.pending), !.pending = 0]
    /\ UNCHANGED <<settings, snapshots, now, loop, pc, frame, base, call, ret, sched>>

\* the loop is over: raise Exception("Failed to make API request after N attempts")
Exhausted ==
    /\ req.pc = "attempt"
    /\ ~InRange(req.attempt, req.max_retries)
    /\ req' = [req EXCEPT !.pc = "raised",
                          !.error = [kind |-> "exhausted", attempts |-> req.max_retries]]
    /\ UNCHANGED <<settings, snapshots, now, loop, pc, frame, base, call, ret, sched>>

\* the default of the max_retries parameter
DefaultMaxRetries == 3

InitReq ==
    /\ settings = DefaultSettings
    /\ EngineInit
    /\ call = NoCall
    /\ ret = NoReturn
    /\ req \in [pc : {"attempt"}, attempt : {0},
                max_retries : (0..MaxRetriesArg) \cup {DefaultMaxRetries},
                requests : {0}, refreshes : {0}, sleeps : {<<>>}, pending : {0},
                outcomes : {<<>>}, error : {None}, value : {None}]
    /\ sched = NoScheduler

NextReq == Attempt \/ Wake \/ Exhausted

\* the loop is sequential code: every request returns or times out (the client is
\* built with timeout=30.0) and every sleep ends
SpecReq == InitReq /\ [][NextReq]_vars /\ WF_vars(NextReq)

(***************************************************************************)
(* SpecBackoff: the engine with the retry loop of _make_request run inside *)
(* the fetch step                                                          *)
(*                                                                         *)
(* run_check calls get_aggregate_product_statuses, which calls             *)
(* _make_request; its backoff is time.sleep, a blocking call made on the   *)
(* thread of the event loop.                                               *)
(***************************************************************************)
\* the locals of _make_request on entry
NewRequest(max_retries) ==
    [pc |-> "attempt", attempt |-> 0, max_retries |-> max_retries, requests |-> 0,
     refreshes |-> 0, sleeps |-> <<>>, pending |-> 0, outcomes |-> <<>>,
     error |-> None, value |-> None]

\* run_check calls get_aggregate_product_statuses: _make_request("GET", url, params)
FetchCall(t) ==
    /\ pc[t] = "fetch"
    /\ Runs(t)
    /\ req = NoRequest
    /\ req' = NewRequest(DefaultMaxRetries)
    /\ loop' = t
    /\ UNCHANGED <<settings, snapshots, now, pc, frame, base, call, ret, sched>>

\* _make_request returned the report: the two parsers run
FetchReturn(t) ==
    /\ pc[t] = "fetch"
    /\ loop = t
    /\ req # NoRequest
    /\ req.pc = "returned"
    /\ \E api_response \in EngineResponses :
          Advance(t, "read",
              [frame[t] EXCEPT
                  !.current_totals = parse_product_status_counts(api_response),
                  !.top_issues = get_top_issue_codes(api_response, TopIssuesLimit)])
    /\ req' = NoRequest
    /\ UNCHANGED <<settings, snapshots, now, base, call, ret, sched>>

\* _make_request raised: get_aggregate_product_statuses and run_check re-raise
FetchRaise(t) ==
    /\ pc[t] = "fetch"
    /\ loop = t
    /\ req # NoRequest
    /\ req.pc = "raised"
    /\ Advance(t, "raise", frame[t])
    /\ req' = NoRequest
    /\ UNCHANGED <<settings, snapshots, now, base, call, ret, sched>>

NextBackoff ==
    \/ \E t \in Tasks :
          \/ Trigger(t)
          \/ Resume(t)
          \/ FetchCall(t)
          \/ FetchReturn(t)
          \/ FetchRaise(t)
          \/ ReadLatest(t)
          \/ SendAlert(t)
          \/ SaveSnapshot(t)
          \/ StatusRequest(t)
          \/ HistoryRequest(t)
          \/ Return(t)
          \/ Raise(t)
    \/ Attempt
    \/ Wake
    \/ Exhausted

SpecBackoff == Init /\ [][NextBackoff]_vars

(***************************************************************************)
(* SpecSched: SchedulerService driving check cycles                        *)
(*                                                                         *)
(* start() and stop() are called from coroutines on the event loop; the    *)
(* handler of SIGINT / SIGTERM runs on the main thread between any two     *)
(* steps of whatever that thread executes.  sched.task is "none", "live"   *)
(* or "cancelled" (the state of the task self.task refers to); sched.live   *)
(* counts the _scheduler_loop tasks created by asyncio.create_task and not *)
(* cancelled; sched.log is the last line start() or stop() logged;         *)
(* sched.failed records that the last cycle logged an error; loop =        *)
(* "exited" once sys.exit has ended the process.                           *)
(***************************************************************************)
\* mutant: start() without the test of self.running
SchedStart_no_guard ==
    /\ loop = "idle"
    /\ sched' = [sched EXCEPT !.running = TRUE, !.task = "live", !.live = @ + 1,
                              !.log = "started"]
    /\ pc' = [pc EXCEPT !["sched"] = "ready"]
    /\ UNCHANGED <<settings, snapshots, now, loop, frame, base, call, ret, req>>

\* start(): a second start is refused; otherwise the loop task is created
SchedStart ==
    /\ loop = "idle"
    /\ IF sched.running
       THEN /\ sched' = [sched EXCEPT !.log = "already_running"]
            /\ UNCHANGED pc
       ELSE /\ sched' = [sched EXCEPT !.running = TRUE, !.task = "live",
                                      !.live = @ + 1, !.log = "started"]
            /\ pc' = [pc EXCEPT !["sched"] = "ready"]
    /\ UNCHANGED <<settings, snapshots, now, loop, frame, base, call, ret, req>>

\* stop(): refused when not running; otherwise running = False and task.cancel(),
\* which ends the loop task at its await (except asyncio.CancelledError: break)
SchedStop ==
    /\ loop = "idle"
    /\ IF ~sched.running
       THEN /\ sched' = [sched EXCEPT !.log = "not_running"]
            /\ UNCHANGED pc
       ELSE /\ sched' = [sched EXCEPT !.running = FALSE,
                                      !.task = IF @ = "none" THEN @ ELSE "cancelled",
                                      !.live = IF sched.task = "live" THEN @ - 1 ELSE @,
                                      !.log = "stopped"]
            /\ pc' = [pc EXCEPT !["sched"] = "idle"]
    /\ UNCHANGED <<settings, snapshots, now, loop, frame, base, call, ret, req>>

\* await asyncio.sleep(interval_seconds) is over
SchedTimer ==
    /\ sched.task = "live"
    /\ loop # "exited"
    /\ pc["sched"] = "idle"
    /\ pc' = [pc EXCEPT !["sched"] = "ready"]
    /\ UNCHANGED <<settings, snapshots, now, loop, frame, base, call, ret, req, sched>>

\* while self.running: await self._run_check_cycle(), which calls run_check
SchedResume ==
    /\ sched.task = "live"
    /\ sched.running
    /\ pc["sched"] = "ready"
    /\ loop = "idle"
    /\ pc' = [pc EXCEPT !["sched"] = "fetch"]
    /\ frame' = [frame EXCEPT !["sched"] = [NoFrame EXCEPT !.kind = "run",
                                                           !.entry = snapshots]]
    /\ loop' = "sched"
    /\ UNCHANGED <<settings, snapshots, now, base, call, ret, req, sched>>

\* the fetch of a scheduled cycle; the Status Source only fails once the store
\* holds MaxSnapshots snapshots
SchedFetch ==
    /\ Fetch("sched")
    /\ Len(snapshots) >= MaxSnapshots => pc'["sched"] = "raise"

\* mutant: the error escapes _run_check_cycle and ends the loop task
SchedCycleError_ends_task ==
    /\ pc["sched"] = "raise"
    /\ Runs("sched")
    /\ Advance("sched", "idle", NoFrame)
    /\ sched' = [sched EXCEPT !.failed = TRUE, !.task = "finished"]
    /\ UNCHANGED <<settings, snapshots, now, base, call, ret, req>>

\* _run_check_cycle: except Exception logs the error; the loop goes on to
\* await asyncio.sleep
SchedCycleError ==
    /\ pc["sched"] = "raise"
    /\ Runs("sched")
    /\ Advance("sched", "idle", NoFrame)
    /\ sched' = [sched EXCEPT !.failed = TRUE]
    /\ UNCHANGED <<settings, snapshots, now, base, call, ret, req>>

\* _run_check_cycle logs the result; the loop goes on to await asyncio.sleep
SchedCycleDone ==
    /\ pc["sched"] = "return"
    /\ Runs("sched")
    /\ Advance("sched", "idle", NoFrame)
    /\ sched' = [sched EXCEPT !.failed = FALSE]
    /\ UNCHANGED <<settings, snapshots, now, base, call, ret, req>>

\* _signal_handler: self.stop(), then sys.exit(0): SystemExit is raised at the
\* point the main thread has reached, which no except Exception catches
Signal ==
    /\ loop # "exited"
    /\ sched' = [sched EXCEPT !.running = FALSE,
                               !.task = IF sched.running /\ @ # "none"
                                        THEN "cancelled" ELSE @,
                               !.live = IF sched.running /\ sched.task = "live"
                                        THEN @ - 1 ELSE @,
                               !.log = IF sched.running THEN "stopped"
                                       ELSE "not_running",
                               !.exited = TRUE]
    /\ loop' = "exited"
    /\ UNCHANGED <<settings, snapshots, now, pc, frame, base, call, ret, req>>

InitSched ==
    /\ settings = DefaultSettings
    /\ EngineInit
    /\ call = NoCall
    /\ ret = NoReturn
    /\ req = NoRequest
    /\ sched = NoScheduler

\* the steps of the loop task
SchedStep ==
    \/ SchedTimer
    \/ SchedResume
    \/ SchedFetch
    \/ ReadLatest("sched")
    \/ SendAlert("sched")
    \/ SaveSnapshot("sched")
    \/ SchedCycleDone
    \/ SchedCycleError

NextSched ==
    \/ SchedStart
    \/ SchedStop
    \/ Signal
    \/ SchedStep

\* the loop task is sequential code on an event loop nothing else occupies, and
\* its timer expires
SpecSched == InitSched /\ [][NextSched]_vars /\ WF_vars(SchedStep)

(***************************************************************************)
(* SpecMock: SpecDev together with AlertServiceDev.get_alert_history, which *)
(* reads MockDatabaseService                                               *)
(***************************************************************************)
\* s[-n:] for n >= 0; s[-0:] is s[0:], the whole list
LastN(s, n) ==
    IF n = 0 \/ n >= Len(s) THEN s ELSE SubSeq(s, Len(s) - n + 1, Len(s))

\* MockDatabaseService.get_alert_history
mock_get_alert_history(limit) ==
    LastN(SelectSeq(snapshots, LAMBDA s: s.alert_sent), limit)

\* AlertServiceDev.get_alert_history
dev_get_alert_history(limit) ==
    LET alert_snapshots == mock_get_alert_history(limit)
    IN  [i \in 1..Len(alert_snapshots) |-> HistoryEntry(alert_snapshots[i])]

\* a call of AlertServiceDev.get_alert_history(limit) between two requests; the
\* store it read is kept with the arguments
DevHistoryCall ==
    /\ loop = "idle"
    /\ \E limit \in LimitValues :
          /\ call' = [fn |-> "get_alert_history", limit |-> limit, store |-> snapshots]
          /\ ret' = [returned |-> TRUE, value |-> dev_get_alert_history(limit)]
    /\ UNCHANGED <<settings, snapshots, now, loop, pc, frame, base, req, sched>>

NextMock == NextDev \/ DevHistoryCall

SpecMock == InitDev /\ [][NextMock]_vars

(***************************************************************************)
(* SpecStore: the engine behind the HTTP handlers with a store that can    *)
(* fail                                                                    *)
(*                                                                         *)
(* Every FirestoreService method logs and re-raises the errors of the      *)
(* Firestore client.  frame.store_error records that the store raised      *)
(* inside the operation in progress.                                       *)
(***************************************************************************)
\* run_check: get_latest_snapshot raises; except Exception logs and re-raises
ReadLatestFails(t) ==
    /\ pc[t] = "read"
    /\ Runs(t)
    /\ Advance(t, "raise", [frame[t] EXCEPT !.store_error = TRUE])
    /\ UNCHANGED <<settings, snapshots, now, base, call, ret, req, sched>>

\* mutant: the document is written before save_snapshot raises
SaveSnapshotFails_partial_write(t) ==
    /\ pc[t] = "save"
    /\ Runs(t)
    /\ Advance(t, "raise", [frame[t] EXCEPT !.store_error = TRUE])
    /\ snapshots' = Append(snapshots,
                        ProductStatusSnapshot(now, frame[t].current_totals,
                                              frame[t].delta_disapproved,
                                              frame[t].alert_sent, frame[t].top_issues))
    /\ base' = Append(base, [task |-> t, seen |-> frame[t].seen])
    /\ UNCHANGED <<settings, now, call, ret, req, sched>>

\* run_check: save_snapshot raises; except Exception logs and re-raises
SaveSnapshotFails(t) ==
    /\ pc[t] = "save"
    /\ Runs(t)
    /\ Advance(t, "raise", [frame[t] EXCEPT !.store_error = TRUE])
    /\ UNCHANGED <<settings, snapshots, now, base, call, ret, req, sched>>

\* get_status_summary: get_latest_snapshot or get_snapshots_last_24h raises; except
\* Exception returns the error summary
StatusRequestFails(t) ==
    /\ pc[t] = "status"
    /\ Runs(t)
    /\ Advance(t, "return",
           [frame[t] EXCEPT !.store_error = TRUE,
                            !.result = [status |-> "error", message |-> "store error",
                                        last_check |-> None]])
    /\ UNCHANGED <<settings, snapshots, now, base, call, ret, req, sched>>

\* get_alert_history: db_service.get_alert_history raises; except Exception
\* returns []
HistoryRequestFails(t) ==
    /\ pc[t] = "history"
    /\ Runs(t)
    /\ Advance(t, "return",
           [frame[t] EXCEPT !.store_error = TRUE,
                            !.passed = CappedLimit(frame[t].limit),
                            !.result = <<>>])
    /\ UNCHANGED <<settings, snapshots, now, base, call, ret, req, sched>>

NextStore ==
    \/ Trigger("http")
    \/ Resume("http")
    \/ Fetch("http")
    \/ ReadLatest("http")
    \/ ReadLatestFails("http")
    \/ SendAlert("http")
    \/ SaveSnapshot("http")
    \/ SaveSnapshotFails("http")
    \/ StatusRequest("http")
    \/ StatusRequestFails("http")
    \/ HistoryRequest("http")
    \/ HistoryRequestFails("http")
    \/ Return("http")
    \/ Raise("http")

SpecStore == Init /\ [][NextStore]_vars

(***************************************************************************)
(* SpecTrend: AlertService._calculate_trend on enumerated windows          *)
(***************************************************************************)
\* chronologically ordered windows of up to MaxWindow snapshots, one per clock
\* tick, with every combination of disapproved counts
TrendWindows ==
    UNION {{[i \in 1..n |->
                ProductStatusSnapshot(i - 1, [ZeroCounts EXCEPT !.disapproved = d[i]],
                                      IF i = 1 THEN 0 ELSE d[i] - d[i - 1],
                                      FALSE, <<>>)] :
            d \in [1..n -> 0..MaxCount]} : n \in 0..MaxWindow}

InitTrend ==
    /\ settings = DefaultSettings
    /\ EngineInit
    /\ call \in [fn : {"_calculate_trend"}, snapshots_24h : TrendWindows]
    /\ ret = NoReturn
    /\ req = NoRequest
    /\ sched = NoScheduler

TrendCall ==
    /\ call.fn = "_calculate_trend"
    /\ ~ret.returned
    /\ ret' = [returned |-> TRUE, value |-> _calculate_trend(call.snapshots_24h)]
    /\ UNCHANGED <<settings, snapshots, now, loop, pc, frame, base, call, req, sched>>

NextTrend == TrendCall

SpecTrend == InitTrend /\ [][NextTrend]_vars

(***************************************************************************)
(* SpecParse: MerchantAPIService.parse_product_status_counts on enumerated *)
(* reports                                                                 *)
(***************************************************************************)
\* status strings of report items: the seven names, other spellings of them, an
\* unrecognized status in two spellings, and "" for an item without a status
ParseStatuses ==
    {"APPROVED", "PENDING", "DISAPPROVED", "LIMITED", "SUSPENDED", "UNDER_REVIEW",
     "PROCESSING", "approved", "Disapproved", "limited", "unknown", "UNKNOWN", ""}

\* report items; count 0 also stands for an item without a count.  The reports
\* parsed are the sequences of 0..MaxItems of them.
ParseItems == [status : ParseStatuses, count : 0..MaxCount]

InitParse ==
    /\ settings = DefaultSettings
    /\ EngineInit
    /\ \E n \in 0..MaxItems :
          \E items \in [1..n -> ParseItems] :
              call = [fn |-> "parse_product_status_counts",
                      api_response |-> [items |-> items]]
    /\ ret = NoReturn
    /\ req = NoRequest
    /\ sched = NoScheduler

ParseCall ==
    /\ call.fn = "parse_product_status_counts"
    /\ ~ret.returned
    /\ ret' = [returned |-> TRUE,
               value |-> parse_product_status_counts(call.api_response)]
    /\ UNCHANGED <<settings, snapshots, now, loop, pc, frame, base, call, req, sched>>

NextParse == ParseCall

SpecParse == InitParse /\ [][NextParse]_vars

(***************************************************************************)
(* SpecTop: MerchantAPIService.get_top_issue_codes on enumerated reports   *)
(***************************************************************************)
\* issue details: without a code, with count 0, and two codes with every count
\* from 1 to MaxCount - 1; "" also stands for a detail without a code
TopDetails ==
    {[code |-> "", description |-> "no code", count |-> MaxCount],
     [code |-> "MISSING_GTIN", description |-> "Missing GTIN", count |-> 0]}
    \cup {[code |-> c, description |-> c, count |-> n] :
            c \in {"MISSING_GTIN", "INVALID_PRICE"}, n \in 1..(MaxCount - 1)}

\* the issueDetails of an item: none, one or two details
TopDetailLists ==
    {<<>>} \cup {<<d>> : d \in TopDetails} \cup {<<d, e>> : d, e \in TopDetails}

TopItems ==
    [status : {"Disapproved", "limited", "SUSPENDED", "APPROVED"},
     count : {MaxCount}, issueDetails : TopDetailLists]

\* reports of no, one or two items
TopResponses ==
    {[items |-> <<>>]} \cup {[items |-> <<a>>] : a \in TopItems}
    \cup {[items |-> <<a, b>>] : a, b \in TopItems}

InitTop ==
    /\ settings = DefaultSettings
    /\ EngineInit
    /\ call \in [fn : {"get_top_issue_codes"}, api_response : TopResponses,
                 limit : 0..MaxLimit]
    /\ ret = NoReturn
    /\ req = NoRequest
    /\ sched = NoScheduler

TopCall ==
    /\ call.fn = "get_top_issue_codes"
    /\ ~ret.returned
    /\ ret' = [returned |-> TRUE,
               value |-> get_top_issue_codes(call.api_response, call.limit)]
    /\ UNCHANGED <<settings, snapshots, now, loop, pc, frame, base, call, req, sched>>

NextTop == TopCall

SpecTop == InitTop /\ [][NextTop]_vars

(***************************************************************************)
(* SpecNotify: the engine behind the HTTP handlers with the inside of      *)
(* EmailService.send_alert_email                                           *)
(*                                                                         *)
(* send_alert_email builds the mail, hands it to SendGrid and, when the    *)
(* answer is 200, 201 or 202, writes the audit record with                 *)
(* db_service.save_email_alert before it returns True.  The whole body is  *)
(* inside try / except Exception: return False.  frame.accepted records    *)
(* that SendGrid accepted the mail, frame.audit_error that the audit write *)
(* raised.                                                                 *)
(***************************************************************************)
\* what sg.send does: an accepted status, another status, or an exception
Transports == {"accepted", "rejected", "raises"}

\* run_check: email_service.send_alert_email and the downgrade of alert_sent
SendAlertAudited(t) ==
    /\ pc[t] = "send"
    /\ Runs(t)
    /\ \E transport \in Transports, audit_ok \in BOOLEAN :
          /\ transport # "accepted" => audit_ok
          /\ LET email_success == transport = "accepted" /\ audit_ok
             IN  Advance(t, "save",
                     [frame[t] EXCEPT !.accepted = (transport = "accepted"),
                                      !.audit_error = ~audit_ok,
                                      !.email_success = email_success,
                                      !.sent = @ + 1,
                                      !.alert_sent = IF ~email_success THEN FALSE ELSE @])
    /\ UNCHANGED <<settings, snapshots, now, base, call, ret, req, sched>>

NextNotify ==
    \/ Trigger("http")
    \/ Resume("http")
    \/ Fetch("http")
    \/ ReadLatest("http")
    \/ SendAlertAudited("http")
    \/ SaveSnapshot("http")
    \/ StatusRequest("http")
    \/ HistoryRequest("http")
    \/ Return("http")
    \/ Raise("http")

SpecNotify == Init /\ [][NextNotify]_vars

(***************************************************************************)
(* Claims                                                                  *)
(***************************************************************************)
Problematic(totals) == totals.disapproved + totals.suspended + totals.limited

\* C1: _should_send_alert returns true exactly when the problematic total
\* (disapproved + suspended + limited) is strictly above alert_threshold_abs or the
\* delta is at least alert_threshold_delta, and false otherwise.
C1_ShouldAlertIffThresholds ==
    ret.returned =>
        /\ ret.value \in BOOLEAN
        /\ ret.value <=>
              \/ Problematic(call.totals) > settings.alert_threshold_abs
              \/ call.delta_disapproved >= settings.alert_threshold_delta

\* C1 witness: both boundaries on the quiet side (problematic equal to the absolute
\* threshold, delta one below the delta threshold) and the call returned false.
C1_Witness ==
    /\ ret.returned
    /\ ~ret.value
    /\ Problematic(call.totals) = settings.alert_threshold_abs
    /\ call.totals.suspended > 0
    /\ call.delta_disapproved = settings.alert_threshold_delta - 1

InRun(t) == frame[t].kind = "run"

C3_NotifierOncePerAlert ==
    \A t \in Tasks :
        /\ frame[t].sent <= 1
        /\ (InRun(t) /\ pc[t] = "return") =>
              LET decision ==
                      \/ Problematic(frame[t].current_totals) > settings.alert_threshold_abs
                      \/ frame[t].delta_disapproved >= settings.alert_threshold_delta
              IN  /\ frame[t].sent = IF decision THEN 1 ELSE 0
                  /\ (frame[t].sent = 1 /\ frame[t].email_success) =>
                        /\ Last(snapshots).alert_sent
                        /\ frame[t].result.alert_sent

\* C3 witness: a run returns after one successful send.
C3_Witness ==
    \E t \in Tasks :
        /\ pc[t] = "return"
        /\ InRun(t)
        /\ frame[t].sent = 1
        /\ frame[t].email_success
        /\ Last(snapshots).alert_sent

\* C4: when the fetch fails the error propagates out of run_check with the store
\* exactly as the run found it and without any Notifier call.
C4_FetchFailureLeavesNoTrace ==
    \A t \in Tasks :
        pc[t] = "raise" =>
            /\ snapshots = frame[t].entry
            /\ frame[t].sent = 0
            /\ frame[t].result = None

\* C4 witness: a fetch fails on a store that already holds snapshots.
C4_Witness ==
    \E t \in Tasks : pc[t] = "raise" /\ Len(snapshots) >= 1

\* C5: every persisted delta_disapproved is the snapshot's disapproved count minus
\* that of the snapshot latest() returned to its run, or 0 when the store was empty;
\* the returned result carries the same delta.
C5_DeltaAgainstLatest ==
    /\ \A i \in 1..Len(snapshots) :
          snapshots[i].delta_disapproved =
              IF base[i].seen = 0 THEN 0
              ELSE snapshots[i].totals.disapproved
                   - snapshots[base[i].seen].totals.disapproved
    /\ \A t \in Tasks :
          (InRun(t) /\ pc[t] = "return") =>
              frame[t].result.delta.disapproved = Last(snapshots).delta_disapproved

\* C5 witness: a first snapshot with disapproved products and delta 0, followed by a
\* snapshot with a negative delta.
C5_Witness ==
    /\ Len(snapshots) >= 2
    /\ snapshots[1].totals.disapproved > 0
    /\ snapshots[1].delta_disapproved = 0
    /\ snapshots[2].delta_disapproved < 0

\* C7: the store is append-only under the engine: a step either leaves the store as
\* it is or is the save step of a run and appends one snapshot after the unchanged
\* earlier ones; a run that returns has appended exactly one snapshot; the status
\* and history operations leave the store as they found it.
C7_StoreAppendOnly ==
    /\ [][\/ snapshots' = snapshots
          \/ /\ Len(snapshots') = Len(snapshots) + 1
             /\ SubSeq(snapshots', 1, Len(snapshots)) = snapshots
             /\ \E t \in Tasks : pc[t] = "save" /\ pc'[t] = "return"]_vars
    /\ [](\A t \in Tasks :
             pc[t] = "return" =>
                 IF InRun(t)
                 THEN /\ Len(snapshots) = Len(frame[t].entry) + 1
                      /\ SubSeq(snapshots, 1, Len(frame[t].entry)) = frame[t].entry
                 ELSE snapshots = frame[t].entry)

\* C7 witness: a run returns having appended to a store that held two snapshots.
C7_Witness ==
    \E t \in Tasks :
        /\ pc[t] = "return"
        /\ InRun(t)
        /\ Len(frame[t].entry) = 2
        /\ Len(snapshots) = 3

\* C10: the read-latest .. write-snapshot sections of run_check invocations never
\* overlap: while one task is between its read and its write no other task is in
\* that section and the store is as the task read it, and no two persisted
\* snapshots were computed against the same previous snapshot.
C10_ReadCompareWriteExclusive ==
    /\ \A t \in Tasks :
          pc[t] \in {"send", "save"} =>
              /\ frame[t].seen = Len(snapshots)
              /\ \A u \in Tasks \ {t} : pc[u] \in {"idle", "ready"}
    /\ \A i, j \in 1..Len(base) : i # j => base[i].seen # base[j].seen

\* C10 witness: the manual run is between its read and its write while the
\* scheduled trigger is due, after a snapshot written by a scheduled run.
C10_Witness ==
    /\ pc["http"] = "save"
    /\ InRun("http")
    /\ pc["sched"] = "ready"
    /\ Len(base) >= 1
    /\ base[Len(base)].task = "sched"

\* C6 (as claimed): the first run of AlertServiceDev.run_check, against an empty
\* store, records delta_disapproved = 0, the value AlertService.run_check computes
\* there.
C6_DevFirstRunDeltaZero ==
    \A i \in 1..Len(snapshots) :
        base[i].seen = 0 =>
            /\ snapshots[i].delta_disapproved = 0
            /\ snapshots[i].delta_disapproved = DeltaDisapproved(snapshots[i].totals, None)

Terminated == req.pc \in {"returned", "raised"}

Retryable(o) == o \in {"429", "5xx"}

\* C8: a _make_request call terminates, never issues more than max_retries
\* requests, and, when every attempt got a 429 or 5xx answer, ends by raising the
\* exhaustion error for max_retries attempts after exactly max_retries requests.
C8_BoundedRetries ==
    /\ <>Terminated
    /\ [](req.requests <= req.max_retries)
    /\ []((Terminated /\ \A i \in 1..Len(req.outcomes) : Retryable(req.outcomes[i])) =>
             /\ req.pc = "raised"
             /\ req.error = [kind |-> "exhausted", attempts |-> req.max_retries]
             /\ req.requests = req.max_retries
             /\ Len(req.outcomes) = req.max_retries)

\* C8 witness: the default three attempts all answered 429 or 5xx, and the call
\* raised the exhaustion error.
C8_Witness ==
    /\ req.pc = "raised"
    /\ req.max_retries = DefaultMaxRetries
    /\ req.outcomes = <<"429", "5xx", "429">>
    /\ req.requests = 3
    /\ req.error.kind = "exhausted"

\* C9 (as claimed): a client error answer to the first request ends the call at
\* once: the error is raised after that single request and without any sleep.
C9_ClientErrorFailsImmediately ==
    (Len(req.outcomes) >= 1 /\ req.outcomes[1] = "4xx") =>
        /\ req.pc = "raised"
        /\ req.requests = 1
        /\ req.sleeps = <<>>
        /\ req.pending = 0

\* the task whose run_check is inside a backoff sleep of _make_request
Sleeping(t) == pc[t] = "fetch" /\ req # NoRequest /\ req.pc = "sleep"

\* C11 (as claimed): while a check cycle waits in a retry backoff sleep of
\* _make_request only that cycle is blocked: the event loop is free, so that a
\* pending request of another task (GET /health, GET /status) can be served.
C11_BackoffBlocksOnlyItsCycle ==
    \A t \in Tasks :
        Sleeping(t) =>
            \A u \in Tasks \ {t} : pc[u] = "ready" => loop = "idle"

\* C12: a failed scheduled cycle does not end the scheduler: the step that handles
\* the error of run_check logs it and leaves running and the loop task as they
\* were, with the loop waiting for its interval; and unless the scheduler is
\* stopped another cycle is started afterwards.
C12_FailedCycleKeepsScheduler ==
    /\ [][(pc["sched"] = "raise" /\ pc'["sched"] # "raise") =>
             /\ pc'["sched"] = "idle"
             /\ sched'.failed
             /\ sched'.running = sched.running
             /\ sched'.task = sched.task
             /\ sched'.task = "live"]_vars
    /\ [](pc["sched"] = "raise" => <>(pc["sched"] = "fetch" \/ ~sched.running))

\* C12 witness: the scheduler is running a cycle after a cycle that failed.
C12_Witness ==
    /\ sched.failed
    /\ sched.running
    /\ pc["sched"] = "fetch"
    /\ loop = "sched"

\* C13 (as claimed): when the shutdown signal has stopped the process no check
\* cycle is left cut between its steps: not in its fetch, not between the read and
\* the send, and not between the send of the alert and the save of the snapshot.
C13_ShutdownLetsCycleFinish ==
    sched.exited => pc["sched"] \notin {"fetch", "read", "send", "save"}

\* the snapshots of a store with alert_sent = true, most recent first
AlertsNewestFirst(store) == Reverse(SelectSeq(store, LAMBDA s: s.alert_sent))

\* C14 (as claimed): get_alert_history(limit) returns one entry per persisted
\* snapshot with alert_sent = true, most recent first, and never more than limit
\* entries, whatever the store holds and whatever the limit, also with
\* MockDatabaseService as the store.
C14_HistoryNewestFirstWithinLimit ==
    (call.fn = "get_alert_history" /\ ret.returned) =>
        LET alerts == AlertsNewestFirst(call.store)
        IN  /\ Len(ret.value) <= call.limit
            /\ Len(ret.value) <= Len(alerts)
            /\ \A i \in 1..Len(ret.value) : ret.value[i] = HistoryEntry(alerts[i])

\* C15 (as claimed): a store failure inside run_check, get_status_summary or
\* get_alert_history is signalled to the caller: the operation in which the store
\* raised ends by raising, never by returning a result.
C15_StoreFailurePropagates ==
    \A t \in Tasks : frame[t].store_error => pc[t] = "raise"

\* C16: _calculate_trend returns {insufficient_data, change 0} for a window of
\* fewer than 2 snapshots; otherwise change is the disapproved count of the last
\* snapshot minus that of the first and the trend is the sign of change; hence
\* every window of at least 2 snapshots with the same first and last snapshot
\* gets the same result, whatever lies in between.
C16_TrendFromEndpoints ==
    (call.fn = "_calculate_trend" /\ ret.returned) =>
        LET w == call.snapshots_24h
        IN  IF Len(w) < 2
            THEN ret.value = [trend |-> "insufficient_data", change |-> 0]
            ELSE LET change == w[Len(w)].totals.disapproved - w[1].totals.disapproved
                 IN  /\ ret.value.change = change
                     /\ change > 0 => ret.value.trend = "increasing"
                     /\ change < 0 => ret.value.trend = "decreasing"
                     /\ change = 0 => ret.value.trend = "stable"
                     /\ \A v \in TrendWindows :
                           (/\ Len(v) >= 2
                            /\ v[1].totals = w[1].totals
                            /\ v[Len(v)].totals = w[Len(w)].totals) =>
                               _calculate_trend(v) = ret.value

\* C16 witness: a window of three snapshots whose middle one lies above both ends,
\* reported as decreasing by the difference of the ends.
C16_Witness ==
    /\ call.fn = "_calculate_trend"
    /\ ret.returned
    /\ Len(call.snapshots_24h) = 3
    /\ call.snapshots_24h[1].totals.disapproved = 2
    /\ call.snapshots_24h[2].totals.disapproved = 3
    /\ call.snapshots_24h[3].totals.disapproved = 1
    /\ ret.value.trend = "decreasing"
    /\ ret.value.change = 0 - 1

\* a GET /status request of task t has its summary and the store answered
Summarised(t) == pc[t] = "return" /\ frame[t].kind = "status" /\ ~frame[t].store_error

\* C17: when the store answers, get_status_summary returns the no-data result
\* (status "no_data", last_check null, no totals) exactly when the store holds no
\* snapshot; otherwise its status is "alert" when the latest snapshot has
\* alert_sent and "healthy" when it has not, and its totals, delta and alert_sent
\* are those of the latest snapshot.
C17_SummaryOfLatest ==
    \A t \in Tasks :
        Summarised(t) =>
            LET result == frame[t].result
            IN  /\ result.status = "no_data" <=> snapshots = <<>>
                /\ result.status = "no_data" =>
                      /\ result.last_check = None
                      /\ DOMAIN result = {"status", "message", "last_check"}
                /\ snapshots # <<>> =>
                      LET latest == snapshots[Len(snapshots)]
                      IN  /\ result.status = IF latest.alert_sent THEN "alert"
                                             ELSE "healthy"
                          /\ result.totals = latest.totals
                          /\ result.delta = [disapproved |-> latest.delta_disapproved]
                          /\ result.alert_sent = latest.alert_sent
                          /\ result.last_check = latest.timestamp

\* C17 witness: the summary says alert for a store whose latest snapshot has
\* alert_sent and whose first snapshot has not.
C17_Witness ==
    /\ Summarised("http")
    /\ Len(snapshots) >= 2
    /\ ~snapshots[1].alert_sent
    /\ snapshots[Len(snapshots)].alert_sent
    /\ frame["http"].result.status = "alert"

\* C18: GET /alerts/history?limit=N calls get_alert_history with min(N, 50): a
\* limit above 50 is served as limit 50 and a limit of at most 50 is passed
\* through unchanged.
C18_HistoryLimitCapped ==
    \A t \in Tasks :
        (pc[t] = "return" /\ frame[t].kind = "history") =>
            LET N == frame[t].limit
            IN  /\ N > 50 => /\ frame[t].passed = 50
                             /\ frame[t].result = get_alert_history(50)
                /\ N <= 50 => /\ frame[t].passed = N
                              /\ frame[t].result = get_alert_history(N)

\* C18 witness: a request with limit 51 returned, served with limit 50, from a
\* store that holds an alert.
C18_Witness ==
    /\ pc["http"] = "return"
    /\ frame["http"].kind = "history"
    /\ frame["http"].limit = 51
    /\ frame["http"].passed = 50
    /\ Len(frame["http"].result) >= 1

\* the seven status names, as the fields of ProductStatusCounts
StatusNames ==
    {"approved", "pending", "disapproved", "limited", "suspended", "under_review",
     "processing"}

\* the status name a status string spells when letter case is ignored, if any
StatusNamed(s) ==
    CASE s \in {"APPROVED", "Approved", "approved"} -> "approved"
      [] s \in {"PENDING", "pending"} -> "pending"
      [] s \in {"DISAPPROVED", "Disapproved", "disapproved"} -> "disapproved"
      [] s \in {"LIMITED", "limited"} -> "limited"
      [] s \in {"SUSPENDED", "suspended"} -> "suspended"
      [] s \in {"UNDER_REVIEW", "under_review"} -> "under_review"
      [] s \in {"PROCESSING", "processing"} -> "processing"
      [] OTHER -> "none"

\* the sum of the counts of the first n items whose status spells name
RECURSIVE SumNamed(_, _, _)
SumNamed(items, name, n) ==
    IF n = 0 THEN 0
    ELSE SumNamed(items, name, n - 1)
         + (IF StatusNamed(items[n].status) = name THEN items[n].count ELSE 0)

\* C19: parse_product_status_counts returns, for each of the seven status names,
\* the sum of the counts of the items whose status is that name in any letter
\* case; items with another status change nothing and an empty report gives all
\* zeros.
C19_ParseSumsPerStatus ==
    (call.fn = "parse_product_status_counts" /\ ret.returned) =>
        LET items == call.api_response.items
        IN  /\ DOMAIN ret.value = StatusNames
            /\ \A name \in StatusNames :
                  ret.value[name] = SumNamed(items, name, Len(items))
            /\ items = <<>> => ret.value = ZeroCounts

\* C19 witness: two items spell disapproved in different letter cases and their
\* counts were added up.
C19_Witness ==
    /\ call.fn = "parse_product_status_counts"
    /\ ret.returned
    /\ call.api_response.items = <<[status |-> "DISAPPROVED", count |-> 2],
                                   [status |-> "Disapproved", count |-> 1]>>
    /\ ret.value.disapproved = 3

\* the positions <<item, detail>> of the issue details that count: non-empty
\* code, count > 0, in an item whose status spells disapproved, limited or
\* suspended
Counted(items) ==
    {p \in UNION {{<<i, j>> : j \in 1..Len(items[i].issueDetails)} :
                  i \in 1..Len(items)} :
        /\ StatusNamed(items[p[1]].status) \in {"disapproved", "limited", "suspended"}
        /\ items[p[1]].issueDetails[p[2]].code # ""
        /\ items[p[1]].issueDetails[p[2]].count > 0}

DetailAt(items, p) == items[p[1]].issueDetails[p[2]]

\* p comes before q in the input
InputBefore(p, q) == p[1] < q[1] \/ (p[1] = q[1] /\ p[2] < q[2])

\* the place of position p in the order by count descending, ties in input order
RankOf(items, p) ==
    1 + Cardinality({q \in Counted(items) :
                        \/ DetailAt(items, q).count > DetailAt(items, p).count
                        \/ /\ DetailAt(items, q).count = DetailAt(items, p).count
                           /\ InputBefore(q, p)})

\* C20: get_top_issue_codes(response, limit) is the reference result: every
\* counted issue detail is one entry (entries sharing a code are not merged),
\* ordered by count descending with ties in input order, cut to the first limit
\* entries; so the output has at most limit entries and its counts never
\* increase.
C20_TopIssuesReference ==
    (call.fn = "get_top_issue_codes" /\ ret.returned) =>
        LET items == call.api_response.items
            counted == Counted(items)
            size == IF call.limit < Cardinality(counted) THEN call.limit
                    ELSE Cardinality(counted)
        IN  /\ Len(ret.value) = size
            /\ Len(ret.value) <= call.limit
            /\ \A r \in 1..size :
                  \E p \in counted :
                      /\ RankOf(items, p) = r
                      /\ ret.value[r] = DetailAt(items, p)
            /\ \A r \in 1..(size - 1) : ret.value[r].count >= ret.value[r + 1].count

\* C20 witness: three counted details over two items, two of them under the same
\* code, the two of equal count kept in input order, and the output cut to the
\* limit of 2.
C20_Witness ==
    /\ call.fn = "get_top_issue_codes"
    /\ ret.returned
    /\ call.limit = 2
    /\ Cardinality(Counted(call.api_response.items)) = 3
    /\ Len(call.api_response.items) = 2
    /\ call.api_response.items[1].issueDetails[1].code = "INVALID_PRICE"
    /\ call.api_response.items[2].issueDetails[1].code = "INVALID_PRICE"
    /\ Len(ret.value) = 2
    /\ ret.value[1].count = ret.value[2].count
    /\ ret.value[1].code = "INVALID_PRICE"
    /\ ret.value[2].code = "MISSING_GTIN"

\* the number of the outcomes in os that belong to the set S
RECURSIVE CountIn(_, _)
CountIn(os, S) ==
    IF os = <<>> THEN 0
    ELSE (IF Head(os) \in S THEN 1 ELSE 0) + CountIn(Tail(os), S)

\* C21 (as claimed): when an attempt of _make_request fails with an authentication
\* failure (the credential provider raises, or the API answers 401), the credential
\* was refreshed for it, no backoff sleep follows it, and the request is retried
\* while attempts remain.
C21_AuthFailureRefreshesNoSleep ==
    (req.outcomes # <<>> /\ Last(req.outcomes) \in {"auth_error", "401"}) =>
        /\ req.refreshes = CountIn(req.outcomes, {"auth_error", "401"})
        /\ req.pc # "sleep"
        /\ Len(req.outcomes) < req.max_retries => req.pc = "attempt"

C23_BackoffByClassAndAttempt ==
    req.pc = "sleep" =>
        LET a == Len(req.outcomes) - 1
            o == Last(req.outcomes)
        IN  /\ a = req.attempt
            /\ o = "429" => req.pending = 60 * (2 ^ a)
            /\ o = "5xx" => req.pending = 10 * (2 ^ a)
            /\ o = "timeout" => req.pending = 5 * (2 ^ a)

\* C23 witness: the third attempt (index 2) was answered 429 after a timeout and a
\* 5xx, and the call waits 240 seconds, having waited 5 and 20.
C23_Witness ==
    /\ req.pc = "sleep"
    /\ req.outcomes = <<"timeout", "5xx", "429">>
    /\ req.sleeps = <<5, 20>>
    /\ req.pending = 240

\* the answers so far are k-1 retryable responses (429 or 5xx) followed by a 200
RetriedThenOk(os) ==
    /\ os # <<>>
    /\ Last(os) = "200"
    /\ \A i \in 1..(Len(os) - 1) : os[i] \in {"429", "5xx"}

\* C24: when the first k-1 attempts of _make_request are answered 429 or 5xx and
\* attempt k <= max_retries is answered 200, the call has returned that response's
\* body after exactly k physical requests and k-1 sleeps, and a call that has
\* returned issues no further request.
C24_RetriesThenReturns ==
    /\ [](RetriedThenOk(req.outcomes) =>
            /\ req.pc = "returned"
            /\ req.value = [json |-> "body"]
            /\ req.error = None
            /\ Len(req.outcomes) <= req.max_retries
            /\ req.requests = Len(req.outcomes)
            /\ Len(req.sleeps) = Len(req.outcomes) - 1
            /\ req.pending = 0)
    /\ [][req.pc = "returned" => req' = req]_vars

\* C24 witness: a default call answered 429, 5xx and then 200 has returned after
\* three requests.
C24_Witness ==
    /\ req.pc = "returned"
    /\ req.max_retries = DefaultMaxRetries
    /\ req.outcomes = <<"429", "5xx", "200">>
    /\ req.requests = 3
    /\ req.sleeps = <<60, 20>>

\* the failure classes after which _make_request can sleep
SleepClasses == {"429", "5xx", "401", "4xx", "timeout", "error"}

\* the last permitted attempt has been made and was answered o
LastAttemptWas(S) ==
    /\ req.max_retries > 0
    /\ Len(req.outcomes) = req.max_retries
    /\ Last(req.outcomes) \in S

\* the backoff factor of a retryable response
FactorOf(o) == IF o = "429" THEN 60 ELSE 10

\* C29: on the last permitted attempt of _make_request a 429 or 5xx response still
\* performs the full backoff sleep of that attempt and only then is the exhaustion
\* error raised, whereas a timeout on the last attempt re-raises the timeout error
\* at once, with no sleep for that attempt.
C29_LastAttemptSleepsUnlessTimeout ==
    /\ [](LastAttemptWas({"429", "5xx"}) =>
            LET wait == FactorOf(Last(req.outcomes)) * (2 ^ (req.max_retries - 1))
            IN  \/ req.pc = "sleep" /\ req.pending = wait
                \/ /\ req.pc \in {"attempt", "raised"}
                   /\ req.sleeps # <<>> /\ Last(req.sleeps) = wait
                   /\ Len(req.sleeps) = CountIn(req.outcomes, SleepClasses)
                   /\ req.pc = "raised" => req.error = [kind |-> "exhausted",
                                                        attempts |-> req.max_retries])
    /\ [](LastAttemptWas({"timeout"}) =>
            /\ req.pc = "raised"
            /\ req.error = [kind |-> "timeout"]
            /\ req.pending = 0
            /\ Len(req.sleeps) = CountIn(req.outcomes, SleepClasses) - 1)
    /\ (LastAttemptWas({"429", "5xx"}) /\ req.pc = "sleep") ~>
            (req.pc = "raised" /\ req.error.kind = "exhausted")

\* C29 witness: with max_retries = 2 a timeout and then a 429 on the last attempt;
\* the call slept 5 and then the full 120 seconds before the exhaustion error.
C29_Witness ==
    /\ req.max_retries = 2
    /\ req.outcomes = <<"timeout", "429">>
    /\ req.sleeps = <<5, 120>>
    /\ req.pc = "raised"
    /\ req.error.kind = "exhausted"

RECURSIVE SumDeltas(_)
\* the sum of the persisted deltas of a sequence of snapshots
SumDeltas(s) ==
    IF s = <<>> THEN 0 ELSE Head(s).delta_disapproved + SumDeltas(Tail(s))

\* C25: after any sequence of serialized run_check invocations, failed fetches
\* included, the first snapshot has delta 0, each later snapshot's delta is its
\* disapproved count minus that of the snapshot just before it in the store, and
\* the deltas after the first sum to last.disapproved - first.disapproved; a run
\* that fails at fetch leaves the store, and so the chain, as it was.
C25_DeltaChainTelescopes ==
    /\ [](snapshots # <<>> =>
            /\ snapshots[1].delta_disapproved = 0
            /\ \A i \in 1..(Len(snapshots) - 1) :
                  snapshots[i + 1].delta_disapproved =
                      snapshots[i + 1].totals.disapproved - snapshots[i].totals.disapproved
            /\ SumDeltas(Tail(snapshots)) =
                  Last(snapshots).totals.disapproved - snapshots[1].totals.disapproved)
    /\ [][\A t \in Tasks : (pc[t] = "fetch" /\ pc'[t] = "raise") => snapshots' = snapshots]_vars
    /\ [](\A t \in Tasks : (frame[t].kind = "run" /\ pc[t] = "raise") =>
                               snapshots = frame[t].entry)

\* C25 witness: a run has just failed at fetch on a store of two snapshots, the
\* first with disapproved products and delta 0, the second with fewer of them; the
\* store is as the failed run found it.
C25_Witness ==
    /\ Len(snapshots) = 2
    /\ snapshots[1].totals.disapproved > snapshots[2].totals.disapproved
    /\ snapshots[2].totals.disapproved > 0
    /\ SumDeltas(Tail(snapshots)) < 0
    /\ \E t \in Tasks : frame[t].kind = "run" /\ pc[t] = "raise"

\* C26: the engine keeps no alert-suppression state: a run whose decision rule is
\* true goes to the Notifier and has invoked it once when it persists and returns,
\* whether the previous snapshot has alert_sent = true, has alert_sent = false or
\* does not exist; a condition that stays above threshold alerts in every cycle.
C26_NoAlertSuppression ==
    \A t \in Tasks :
        (InRun(t) /\ pc[t] \in {"send", "save", "return"}) =>
            LET f == frame[t]
                decision ==
                    \/ Problematic(f.current_totals) > settings.alert_threshold_abs
                    \/ f.delta_disapproved >= settings.alert_threshold_delta
            IN  /\ decision => f.sent = (IF pc[t] = "send" THEN 0 ELSE 1)
                /\ pc[t] = "send" => decision
                /\ f.previous_snapshot = get_latest_snapshot \/ pc[t] = "return"

\* C26 witness: a run returns after a delivered alert although the snapshot before
\* it already had alert_sent = true and the disapproved count did not move.
C26_Witness ==
    \E t \in Tasks :
        /\ InRun(t)
        /\ pc[t] = "return"
        /\ frame[t].previous_snapshot # None
        /\ frame[t].previous_snapshot.alert_sent
        /\ frame[t].delta_disapproved = 0
        /\ frame[t].sent = 1
        /\ frame[t].email_success
        /\ Len(snapshots) >= 2
        /\ snapshots[Len(snapshots) - 1].alert_sent
        /\ Last(snapshots).alert_sent

\* C28: in run_check the Notifier send precedes the snapshot append: a run that is
\* about to send or to save has not appended yet, and a run about to save whose
\* decision was true has already sent.  If save_snapshot raises after a delivered
\* alert, run_check raises with the store as the run found it, so no snapshot
\* records the alert, and a run that reads afterwards computes its delta against
\* the snapshot that was the latest before the failed run.
C28_SendPrecedesAppend ==
    /\ [](\A t \in Tasks :
            (InRun(t) /\ pc[t] \in {"send", "save"}) =>
                /\ snapshots = frame[t].entry
                /\ Len(snapshots) = frame[t].seen
                /\ frame[t].previous_snapshot = get_latest_snapshot
                /\ frame[t].delta_disapproved =
                       IF snapshots = <<>> THEN 0
                       ELSE frame[t].current_totals.disapproved
                            - Last(snapshots).totals.disapproved
                /\ (pc[t] = "save" /\ frame[t].alert_sent) =>
                       frame[t].sent = 1 /\ frame[t].email_success)
    /\ [](\A t \in Tasks :
            (InRun(t) /\ pc[t] = "raise" /\ frame[t].store_error /\ frame[t].sent = 1) =>
                /\ snapshots = frame[t].entry
                /\ Len(snapshots) = frame[t].seen)
    /\ [][\A t \in Tasks :
            (pc[t] = "save" /\ pc'[t] = "raise") =>
                /\ snapshots' = snapshots
                /\ frame'[t].sent = frame[t].sent]_vars

\* C28 witness: save_snapshot has raised after a delivered alert, on a store that
\* already held a snapshot; the store still ends with that older snapshot.
C28_Witness ==
    /\ InRun("http")
    /\ pc["http"] = "raise"
    /\ frame["http"].store_error
    /\ frame["http"].sent = 1
    /\ frame["http"].email_success
    /\ frame["http"].alert_sent
    /\ snapshots # <<>>
    /\ Last(snapshots) = frame["http"].previous_snapshot

\* C27 (as claimed): when the mail transport accepted the alert during a run, the
\* snapshot persisted by that run has alert_sent = true, also when the write of
\* the email audit record failed.
C27_AcceptedAlertIsRecorded ==
    \A t \in Tasks :
        (InRun(t) /\ pc[t] = "return" /\ frame[t].accepted) =>
            /\ Last(snapshots).alert_sent
            /\ frame[t].result.alert_sent

\* C30: after any sequence of start and stop calls at most one scheduler loop task
\* is live (created and not cancelled) and running is true exactly when there is
\* one, which is then the task self.task refers to; a start while running creates
\* no task and a stop while not running changes nothing (each only logs).
C30_AtMostOneLoopTask ==
    /\ [](/\ sched.live \in {0, 1}
          /\ sched.running <=> sched.live = 1
          /\ sched.live = 1 <=> sched.task = "live")
    /\ [][(sched'.log = "already_running" /\ sched.log # "already_running") =>
              /\ sched.running
              /\ sched' = [sched EXCEPT !.log = "already_running"]
              /\ pc' = pc]_vars
    /\ [][(sched'.log = "not_running" /\ sched.log # "not_running" /\ ~sched'.exited) =>
              /\ ~sched.running
              /\ sched' = [sched EXCEPT !.log = "not_running"]
              /\ pc' = pc]_vars

\* C30 witness: the scheduler was started, stopped and started again, and a further
\* start has just been refused while a cycle of the second loop task has already
\* written a snapshot: one live task, running.
C30_Witness ==
    /\ sched.log = "already_running"
    /\ sched.running
    /\ sched.live = 1
    /\ sched.task = "live"
    /\ ~sched.exited
    /\ snapshots # <<>>

=============================================================================
